---------------------------- MODULE Spec2Model ----------------------------
(***************************************************************************)
(* Model of the root synthesizer core:                                     *)
(*   - BaseOscillator (the voice manager): note lifecycle, sustain pedal,  *)
(*     detune / pitch bend, waveform;                                      *)
(*   - getEventForData / MIDIInputElement.onMIDIMessage (the MIDI decoder  *)
(*     and its dispatch on the event bus).                                 *)
(* Spec     is the voice manager driven by semantic events and UI input.   *)
(* MidiSpec is the MIDI input element fed with raw three-byte messages.    *)
(***************************************************************************)
EXTENDS Integers, Sequences, FiniteSets, TLC

(* ------------------------------ bounds -------------------------------- *)

\* Oscillators created per run (noteOn is disabled beyond it).
MaxVoices == 2

\* Events dispatched by the MIDI element per run (no further message is
\* delivered beyond it).
MaxDispatched == 1

(* ------------------------- input alphabets ---------------------------- *)

\* event.detail.note of the noteOn / noteOff events.
Notes == {60, 61}

\* A note outside [0, 127], as a producer could send it.
OutOfRangeNotes == {128}

\* An absent value: a velocity left to start()'s default parameter, the note
\* of a handler that takes none.
Undefined == -1

\* event.detail.velocity in 255ths.
Velocities == {127}

\* start()'s default velocity 0.2, in 255ths (0.2 = 51/255).
DefaultVelocity == 51

\* Fader.valueAsNumber of the detune fader (bipolar).
FaderValues == {1}

\* valueAsNumber of the detune-amount input.
DetuneAmounts == {0, 2}

\* First '-'-separated part of the id of the waveform input that changed.
WaveformIds == {"sine", "noise"}

\* data[0] of a MIDI message: any element of a Uint8Array.
StatusBytes == 0 .. 255

\* data[1]: the two known controls (which are also notes) and a third byte.
DataBytes1 == {1, 64, 60}

\* data[2]: zero and two nonzero values.
DataBytes2 == {0, 1, 127}

(* ------------------------------- state -------------------------------- *)

VARIABLES
    activeNotes,      \* Map note -> voice (index into voices)
    detune,
    detuneAmount,
    stickyPitchBend,
    sustainActive,
    sustainedNotes,   \* Set of notes
    waveform,
    isNoteOn,
    voices,           \* every OscillatorNode/GainNode pair created, in order
    lastOp,           \* the handler that ran last; for a note handler its note
                      \* and whether the note was active when it began, for
                      \* __onDetuneStop whether its target was the Fader
    heldNotes,        \* history: the notes whose last note event was a noteOn
    midiData,         \* the data of the last MIDIMessage event
    midiEvent,        \* onMIDIMessage's local `event`
    dispatched        \* number of dispatchEvent calls of the MIDI element

oscVars == <<activeNotes, detune, detuneAmount, stickyPitchBend, sustainActive,
             sustainedNotes, waveform, isNoteOn, voices, lastOp, heldNotes>>

midiVars == <<midiData, midiEvent, dispatched>>

vars == <<activeNotes, detune, detuneAmount, stickyPitchBend, sustainActive,
          sustainedNotes, waveform, isNoteOn, voices, lastOp, heldNotes,
          midiData, midiEvent, dispatched>>

(* --------------------------- BaseOscillator --------------------------- *)

\* 2 ** ((note - 69) / 12) * 440, kept symbolic: 2^(semitones/12) * base.
noteToFrequency(note) == [semitones |-> note - 69, base |-> 440]

waveforms == {"sawtooth", "sine", "square", "triangle"}

\* The oscillator object together with the audio nodes it has created.
Self ==
    [activeNotes |-> activeNotes, detune |-> detune,
     detuneAmount |-> detuneAmount, stickyPitchBend |-> stickyPitchBend,
     sustainActive |-> sustainActive, sustainedNotes |-> sustainedNotes,
     waveform |-> waveform, isNoteOn |-> isNoteOn, voices |-> voices]

\* Map.delete
MapDelete(m, k) == [x \in (DOMAIN m) \ {k} |-> m[x]]

\* Map.set
MapSet(m, k, v) == [x \in (DOMAIN m) \cup {k} |-> IF x = k THEN v ELSE m[x]]

\* The stop closure without this.activeNotes.delete(note)
StopClosureNoDelete(o, id) ==
    [o EXCEPT !.voices[id].stops = @ + 1,
              !.sustainedNotes = @ \ {o.voices[id].note}]

\* The stop closure without this.sustainedNotes.delete(note)
StopClosureKeepSustained(o, id) ==
    [o EXCEPT !.voices[id].stops = @ + 1,
              !.activeNotes = MapDelete(@, o.voices[id].note)]

\* The `stop` closure stored with voice id: oscillator.stop(), then free the
\* note.
StopClosure(o, id) ==
    [o EXCEPT !.voices[id].stops = @ + 1,
              !.activeNotes = MapDelete(@, o.voices[id].note),
              !.sustainedNotes = @ \ {o.voices[id].note}]

\* activeNotes.get(note)?.stop()
StopIfActive(o, note) ==
    IF note \in DOMAIN o.activeNotes
    THEN StopClosure(o, o.activeNotes[note])
    ELSE o

\* new OscillatorNode(...), new GainNode(...), connect, oscillator.start()
NewVoice(o, note, velocity) ==
    [note      |-> note,
     detune    |-> o.detune,
     frequency |-> noteToFrequency(note),
     type      |-> o.waveform,
     gain      |-> IF velocity = Undefined THEN DefaultVelocity ELSE velocity,
     started   |-> TRUE,
     stops     |-> 0,
     ended     |-> FALSE,
     connected |-> TRUE]

\* start without the retrigger stop
startNoRetriggerStop(o, note, velocity) ==
    LET id == Len(o.voices) + 1
    IN  [o EXCEPT !.voices = Append(@, NewVoice(o, note, velocity)),
                  !.activeNotes = MapSet(@, note, id)]

\* start(note, velocity = 0.2)
start(o, note, velocity) ==
    LET o1 == StopIfActive(o, note)
        id == Len(o1.voices) + 1
    IN  [o1 EXCEPT !.voices = Append(@, NewVoice(o1, note, velocity)),
                   !.activeNotes = MapSet(@, note, id)]

\* stop without the sustain branch
stopIgnoresSustain(o, note) == StopIfActive(o, note)

\* stop without the activeNotes.has(note) test
stopDefersInactive(o, note) ==
    IF o.sustainActive
    THEN [o EXCEPT !.sustainedNotes = @ \cup {note}]
    ELSE StopIfActive(o, note)

\* stop(note)
stop(o, note) ==
    IF o.sustainActive
    THEN IF note \in DOMAIN o.activeNotes /\ note \notin o.sustainedNotes
         THEN [o EXCEPT !.sustainedNotes = @ \cup {note}]
         ELSE o
    ELSE StopIfActive(o, note)

\* The loop of __onSustainOff leaving after its first note
StopEachFirstOnly(o, todo) ==
    IF todo = {} THEN o
    ELSE stop(o, CHOOSE n \in todo : TRUE)

\* for (const note of this.sustainedNotes) this.stop(note): the notes still
\* to visit are those of the set at this point of the iteration.
RECURSIVE StopEach(_, _)
StopEach(o, todo) ==
    IF todo = {} THEN o
    ELSE LET note == CHOOSE n \in todo : TRUE
             o1   == stop(o, note)
         IN  StopEach(o1, (todo \ {note}) \cap o1.sustainedNotes)

\* The detune loop left out
ApplyDetuneSkipped(o) == o

\* for (const { oscillator } of this.activeNotes.values())
\*   oscillator.detune.setValueAtTime(this.detune, audioCtx.currentTime)
ApplyDetune(o) ==
    [o EXCEPT !.voices =
        [i \in DOMAIN @ |->
            IF \E n \in DOMAIN o.activeNotes : o.activeNotes[n] = i
            THEN [@[i] EXCEPT !.detune = o.detune]
            ELSE @[i]]]

\* __onDetuneStop without the stickyPitchBend test
DetuneStopIgnoresSticky(o) == ApplyDetune([o EXCEPT !.detune = 0])

\* The body of __onDetuneStop once currentTarget is known to be the Fader.
DetuneStop(o) ==
    IF o.stickyPitchBend THEN o
    ELSE ApplyDetune([o EXCEPT !.detune = 0])

Commit(o, op, arg, hit) ==
    /\ activeNotes' = o.activeNotes
    /\ detune' = o.detune
    /\ detuneAmount' = o.detuneAmount
    /\ stickyPitchBend' = o.stickyPitchBend
    /\ sustainActive' = o.sustainActive
    /\ sustainedNotes' = o.sustainedNotes
    /\ waveform' = o.waveform
    /\ isNoteOn' = o.isNoteOn
    /\ voices' = o.voices
    /\ lastOp' = [op |-> op, arg |-> arg, hit |-> hit]
    /\ heldNotes' = IF op = "noteOn" THEN heldNotes \cup {arg}
                    ELSE IF op = "noteOff" THEN heldNotes \ {arg}
                    ELSE heldNotes
    /\ UNCHANGED midiVars

(* ------------------------------ handlers ------------------------------ *)

\* __onWaveform(event)
OnWaveform(targetIsInput, id) ==
    /\ Commit(IF targetIsInput /\ id \in waveforms
              THEN [Self EXCEPT !.waveform = id]
              ELSE Self,
              "waveform", Undefined, FALSE)

\* __onDetune(event)
OnDetune(targetIsFader, valueAsNumber) ==
    /\ Commit(IF targetIsFader
              THEN ApplyDetune([Self EXCEPT
                       !.detune = valueAsNumber * detuneAmount * 100])
              ELSE Self,
              "detune", Undefined, FALSE)

\* __onDetuneAmount(event)
OnDetuneAmount(targetIsInput, valueAsNumber) ==
    /\ Commit(IF targetIsInput
              THEN [Self EXCEPT !.detuneAmount = valueAsNumber]
              ELSE Self,
              "detuneAmount", Undefined, FALSE)

\* __onDetuneStop(event)
OnDetuneStop(targetIsFader) ==
    /\ Commit(IF targetIsFader THEN DetuneStop(Self) ELSE Self,
              "detuneStop", Undefined, targetIsFader)

\* __onStickyToggle(event): the mouseup it dispatches on #detune runs
\* __onDetuneStop when that element exists (detuneFader).
OnStickyToggle(targetIsInput, checked, detuneFader) ==
    /\ Commit(IF targetIsInput
              THEN LET o1 == [Self EXCEPT !.stickyPitchBend = checked]
                   IN  IF detuneFader THEN DetuneStop(o1) ELSE o1
              ELSE Self,
              "stickyToggle", Undefined, FALSE)

\* __onNoteOn(event)
OnNoteOn(note, velocity) ==
    /\ Len(voices) < MaxVoices
    /\ Commit(start([Self EXCEPT !.isNoteOn = TRUE], note, velocity),
              "noteOn", note, note \in DOMAIN activeNotes)

\* __onNoteOff(event)
OnNoteOff(note) ==
    /\ Commit(stop([Self EXCEPT !.isNoteOn = FALSE], note), "noteOff", note,
              note \in DOMAIN activeNotes)

\* __onSustainOn also deferring the notes that sound
OnSustainOnCapturing ==
    /\ Commit([Self EXCEPT !.sustainActive = TRUE,
                           !.sustainedNotes = DOMAIN activeNotes],
              "sustainOn", Undefined, FALSE)

\* __onSustainOn()
OnSustainOn ==
    /\ Commit([Self EXCEPT !.sustainActive = TRUE], "sustainOn", Undefined,
              FALSE)

\* __onSustainOff()
OnSustainOff ==
    /\ Commit(LET o1 == [Self EXCEPT !.sustainActive = FALSE]
              IN  StopEach(o1, o1.sustainedNotes),
              "sustainOff", Undefined, sustainedNotes # {})

\* onended also freeing the note of its voice
OnEndedDeleting(id) ==
    /\ voices[id].stops > 0
    /\ ~voices[id].ended
    /\ Commit([Self EXCEPT !.voices[id].ended = TRUE,
                           !.voices[id].connected = FALSE,
                           !.activeNotes = MapDelete(@, voices[id].note),
                           !.sustainedNotes = @ \ {voices[id].note}],
              "ended", Undefined, FALSE)

\* onended without the disconnect calls
OnEndedNoDisconnect(id) ==
    /\ voices[id].stops > 0
    /\ ~voices[id].ended
    /\ Commit([Self EXCEPT !.voices[id].ended = TRUE],
              "ended", Undefined, FALSE)

\* oscillator.onended of voice id: the engine fires it once, after a stop.
OnEnded(id) ==
    /\ voices[id].stops > 0
    /\ ~voices[id].ended
    /\ Commit([Self EXCEPT !.voices[id].ended = TRUE,
                           !.voices[id].connected = FALSE],
              "ended", Undefined, FALSE)

Init ==
    /\ activeNotes = <<>>
    /\ detune = 0
    /\ detuneAmount = 2
    /\ stickyPitchBend = FALSE
    /\ sustainActive = FALSE
    /\ sustainedNotes = {}
    /\ waveform = "sine"
    /\ isNoteOn = FALSE
    /\ voices = <<>>
    /\ lastOp = [op |-> "new", arg |-> Undefined, hit |-> FALSE]
    /\ heldNotes = {}
    /\ midiData = <<>>
    /\ midiEvent = [type |-> "none"]
    /\ dispatched = 0

\* The handlers that take no note.
Controls ==
    \/ \E t \in BOOLEAN, id \in WaveformIds : OnWaveform(t, id)
    \/ \E t \in BOOLEAN, v \in FaderValues : OnDetune(t, v)
    \/ \E t \in BOOLEAN, v \in DetuneAmounts : OnDetuneAmount(t, v)
    \/ \E t \in BOOLEAN : OnDetuneStop(t)
    \/ \E t \in BOOLEAN, c \in BOOLEAN, f \in BOOLEAN : OnStickyToggle(t, c, f)
    \/ OnSustainOn
    \/ OnSustainOff
    \/ \E id \in DOMAIN voices : OnEnded(id)

Next ==
    \/ Controls
    \/ \E n \in Notes, v \in Velocities : OnNoteOn(n, v)
    \/ \E n \in Notes : OnNoteOff(n)

Spec == Init /\ [][Next]_vars

\* The same oscillator when producers also send notes outside [0, 127].
WideNext ==
    \/ Controls
    \/ \E n \in Notes \cup OutOfRangeNotes, v \in Velocities : OnNoteOn(n, v)
    \/ \E n \in Notes \cup OutOfRangeNotes : OnNoteOff(n)

WideSpec == Init /\ [][WideNext]_vars

\* The ended event of voice id.
Ended(id) == id \in DOMAIN voices /\ OnEnded(id)

\* The oscillator with an engine that delivers the ended event of every
\* stopped oscillator.
FairSpec == Spec /\ \A id \in 1 .. MaxVoices : WF_vars(Ended(id))

(* ----------------------------- MIDI input ----------------------------- *)

\* enum MIDICommand
NOTE_OFF == 128
NOTE_ON == 144
CONTROL_CHANGE == 176
PITCH_WHEEL == 224

\* enum MIDIControlChange
MODWHEEL == 1
SUSTAIN == 64

NUM_MIDI_CHANNELS == 16

\* A JavaScript number a / b, kept exact.
Ratio(a, b) == [num |-> a, den |-> b]

\* Truthiness of a number
Truthy(q) == q.num # 0

\* getEventForData returning nothing
NoEvent == [type |-> "none"]

\* customEvent(type, detail)
customEvent(type, detail) == [type |-> type, detail |-> detail]

\* data[i] (the source indexes from 0)
Byte(data, i) == data[i + 1]

\* getEventForData, "Note On or Off": every note-on command is a noteOn.
NoteEventNoAlias(command, channel, data) ==
    LET note     == Byte(data, 1)
        value    == Byte(data, 2)
        velocity == Ratio(value, 255)
    IN  IF command = NOTE_ON
        THEN customEvent("noteOn",
                 [channel |-> channel, note |-> note, velocity |-> velocity])
        ELSE customEvent("noteOff", [channel |-> channel, note |-> note])

\* getEventForData, "Note On or Off"
NoteEvent(command, channel, data) ==
    LET note     == Byte(data, 1)
        value    == Byte(data, 2)
        velocity == Ratio(value, 255)
    IN  IF command = NOTE_ON /\ Truthy(velocity)
        THEN customEvent("noteOn",
                 [channel |-> channel, note |-> note, velocity |-> velocity])
        ELSE customEvent("noteOff", [channel |-> channel, note |-> note])

\* getEventForData, "Pitch Wheel": (data[1] + (data[2] << 8)) / 0xffff
PitchWheelEvent(data) ==
    customEvent("pitchWheel",
        [value |-> Ratio(Byte(data, 1) + Byte(data, 2) * 256, 65535)])

\* "Control Change (CC)" taking only 127 to mean on
ControlChangeEventOnly127(channel, data) ==
    LET control == Byte(data, 1)
        value   == Byte(data, 2)
    IN  IF control = MODWHEEL
        THEN customEvent("modWheel", [value |-> Ratio(value, 255)])
        ELSE IF control = SUSTAIN
        THEN IF value = 127
             THEN customEvent("sustainOn", [channel |-> channel])
             ELSE customEvent("sustainOff", [channel |-> channel])
        ELSE NoEvent

\* getEventForData, "Control Change (CC)"
ControlChangeEvent(channel, data) ==
    LET control == Byte(data, 1)
        value   == Byte(data, 2)
    IN  IF control = MODWHEEL
        THEN customEvent("modWheel", [value |-> Ratio(value, 255)])
        ELSE IF control = SUSTAIN
        THEN IF value # 0
             THEN customEvent("sustainOn", [channel |-> channel])
             ELSE customEvent("sustainOff", [channel |-> channel])
        ELSE NoEvent

\* const channel = data[0] % NUM_MIDI_CHANNELS
channelOf(data) == Byte(data, 0) % NUM_MIDI_CHANNELS

\* The command taken to be the whole status byte
commandOfUnmasked(data) == Byte(data, 0)

\* const command = data[0] - channel
commandOf(data) == Byte(data, 0) - channelOf(data)

\* getEventForData(data)
getEventForData(data) ==
    IF Byte(data, 0) < NOTE_OFF
       \/ Byte(data, 0) >= PITCH_WHEEL + NUM_MIDI_CHANNELS
    THEN NoEvent
    ELSE
    LET channel == channelOf(data)
        command == commandOf(data)
    IN  IF command = NOTE_ON \/ command = NOTE_OFF
        THEN NoteEvent(command, channel, data)
        ELSE IF command = PITCH_WHEEL
        THEN PitchWheelEvent(data)
        ELSE IF command = CONTROL_CHANGE
        THEN ControlChangeEvent(channel, data)
        ELSE NoEvent

\* onMIDIMessage without the `if (event)` test
OnMIDIMessageAlwaysDispatch(data) ==
    /\ dispatched < MaxDispatched
    /\ midiData' = data
    /\ midiEvent' = getEventForData(data)
    /\ dispatched' = dispatched + 1
    /\ UNCHANGED oscVars

\* MIDIInputElement.onMIDIMessage({ data })
OnMIDIMessage(data) ==
    /\ dispatched < MaxDispatched
    /\ midiData' = data
    /\ LET event == getEventForData(data)
       IN  /\ midiEvent' = event
           /\ dispatched' = IF event # NoEvent THEN dispatched + 1
                                               ELSE dispatched
    /\ UNCHANGED oscVars

MidiNext ==
    \E b0 \in StatusBytes, b1 \in DataBytes1, b2 \in DataBytes2 :
        OnMIDIMessage(<<b0, b1, b2>>)

MidiSpec == Init /\ [][MidiNext]_vars

(* ------------------------- voice bookkeeping -------------------------- *)

\* The voices of note n that have been started and not been issued a stop.
LiveVoices(n) ==
    {id \in DOMAIN voices :
        voices[id].note = n /\ voices[id].started /\ voices[id].stops = 0}

NoteOnOf(n, hit) == [op |-> "noteOn", arg |-> n, hit |-> hit]

NoteOffOf(n, hit) == [op |-> "noteOff", arg |-> n, hit |-> hit]

(* ------------------------------- claims ------------------------------- *)

\* C1: in every reachable state each note has at most one entry in
\* activeNotes, that entry is a voice of that note, and at most one
\* oscillator of the note has been started and not yet been issued a stop.
C1_OneLiveVoicePerNote ==
    \A n \in Notes :
        /\ Cardinality(LiveVoices(n)) <= 1
        /\ n \in DOMAIN activeNotes =>
               /\ activeNotes[n] \in DOMAIN voices
               /\ voices[activeNotes[n]].note = n
        /\ Cardinality({m \in DOMAIN activeNotes :
                            voices[activeNotes[m]].note = n}) <= 1

\* A note has been retriggered: its first voice is stopped, its second live.
C1_Witness ==
    \E i, j \in DOMAIN voices :
        /\ i < j
        /\ voices[i].note = voices[j].note
        /\ voices[i].stops = 1
        /\ LiveVoices(voices[j].note) = {j}
        /\ activeNotes[voices[j].note] = j

\* C2: a noteOn(n) that finds n active stops the old voice in the same step,
\* whatever sustainActive and sustainedNotes are; afterwards the only live
\* voice of n is the new one, it is the activeNotes entry of n, and n is not
\* in sustainedNotes, so that a sustainOff that follows a noteOn(n) leaves the
\* voice of n active and unstopped.
C2_Retrigger ==
    [][/\ \A n \in Notes :
            (lastOp' = NoteOnOf(n, TRUE) /\ n \in DOMAIN activeNotes) =>
                LET old == activeNotes[n]
                    new == Len(voices) + 1
                IN  /\ voices'[old].stops = voices[old].stops + 1
                    /\ Len(voices') = new
                    /\ n \in DOMAIN activeNotes'
                    /\ activeNotes'[n] = new
                    /\ voices'[new].note = n
                    /\ voices'[new].stops = 0
                    /\ {id \in DOMAIN voices' :
                           voices'[id].note = n /\ voices'[id].stops = 0} = {new}
                    /\ n \notin sustainedNotes'
       /\ \A n \in Notes :
            (lastOp.op = "noteOn" /\ lastOp.arg = n
                /\ lastOp'.op = "sustainOff") =>
                /\ n \in DOMAIN activeNotes'
                /\ activeNotes'[n] = activeNotes[n]
                /\ voices'[activeNotes[n]].stops = 0
      ]_vars

\* A retrigger has just happened while the pedal is down.
C2_Witness ==
    /\ lastOp.op = "noteOn" /\ lastOp.hit
    /\ sustainActive
    /\ Len(voices) = 2
    /\ voices[1].note = lastOp.arg /\ voices[1].stops = 1
    /\ voices[2].note = lastOp.arg /\ voices[2].stops = 0

\* C3: a noteOff(n) that arrives while sustainActive and n is active adds n to
\* sustainedNotes and issues no stop; a note in sustainedNotes keeps its voice
\* in activeNotes, unstopped, over every step that is neither a sustainOff
\* nor a noteOn of that note.
C3_SustainDeferral ==
    [][/\ \A n \in Notes :
            (lastOp' = NoteOffOf(n, TRUE) /\ sustainActive
                /\ n \in DOMAIN activeNotes) =>
                /\ sustainedNotes' = sustainedNotes \cup {n}
                /\ activeNotes' = activeNotes
                /\ voices' = voices
       /\ \A n \in sustainedNotes :
            (lastOp'.op # "sustainOff" /\ lastOp' # NoteOnOf(n, TRUE)
                /\ lastOp' # NoteOnOf(n, FALSE)) =>
                /\ n \in DOMAIN activeNotes
                /\ n \in DOMAIN activeNotes'
                /\ activeNotes'[n] = activeNotes[n]
                /\ voices'[activeNotes[n]].stops = 0
                /\ n \in sustainedNotes'
      ]_vars

\* A release has just been deferred: the note is sustained and still sounds.
C3_Witness ==
    /\ lastOp.op = "noteOff" /\ lastOp.hit
    /\ sustainActive
    /\ lastOp.arg \in sustainedNotes
    /\ lastOp.arg \in DOMAIN activeNotes
    /\ voices[activeNotes[lastOp.arg]].stops = 0

\* C4: sustainOff sets sustainActive to false, issues a stop to the voice of
\* every note that was in sustainedNotes and removes it from activeNotes,
\* leaves sustainedNotes empty, and leaves the voice of every active note that
\* was not in sustainedNotes active and untouched.
C4_SustainOff ==
    [][lastOp'.op = "sustainOff" =>
        /\ ~sustainActive'
        /\ sustainedNotes' = {}
        /\ \A n \in sustainedNotes :
              /\ n \in DOMAIN activeNotes
              /\ voices'[activeNotes[n]].stops = voices[activeNotes[n]].stops + 1
              /\ n \notin DOMAIN activeNotes'
        /\ \A n \in (DOMAIN activeNotes) \ sustainedNotes :
              /\ n \in DOMAIN activeNotes'
              /\ activeNotes'[n] = activeNotes[n]
              /\ voices'[activeNotes[n]] = voices[activeNotes[n]]
              /\ voices'[activeNotes[n]].stops = 0
        /\ Len(voices') = Len(voices)
      ]_vars

\* A sustainOff has flushed a sustained note while another key is held.
C4_Witness ==
    /\ lastOp.op = "sustainOff" /\ lastOp.hit
    /\ ~sustainActive /\ sustainedNotes = {}
    /\ \E i, j \in DOMAIN voices :
          /\ voices[i].note # voices[j].note
          /\ voices[i].stops = 1 /\ voices[i].note \notin DOMAIN activeNotes
          /\ voices[j].stops = 0 /\ voices[j].note \in DOMAIN activeNotes
          /\ activeNotes[voices[j].note] = j

\* C5: a noteOff(n) that arrives while sustainActive is false and n is active
\* issues a stop to the voice of n in the same step and leaves n neither in
\* activeNotes nor in sustainedNotes; a noteOn(n) that follows it stops no
\* voice (a fresh start).
C5_NoteOffStops ==
    [][/\ \A n \in Notes :
            (lastOp' = NoteOffOf(n, TRUE) /\ ~sustainActive
                /\ n \in DOMAIN activeNotes) =>
                /\ voices'[activeNotes[n]].stops = voices[activeNotes[n]].stops + 1
                /\ n \notin DOMAIN activeNotes'
                /\ n \notin sustainedNotes'
                /\ \A m \in (DOMAIN activeNotes) \ {n} :
                      /\ m \in DOMAIN activeNotes'
                      /\ voices'[activeNotes'[m]].stops = 0
       /\ \A n \in Notes :
            (lastOp = NoteOffOf(n, TRUE) /\ ~sustainActive
                /\ lastOp'.op = "noteOn" /\ lastOp'.arg = n) =>
                /\ ~lastOp'.hit
                /\ Len(voices') = Len(voices) + 1
                /\ \A id \in DOMAIN voices : voices'[id] = voices[id]
      ]_vars

\* A key has just been released with the pedal up and its voice stopped.
C5_Witness ==
    /\ lastOp.op = "noteOff" /\ lastOp.hit
    /\ ~sustainActive
    /\ lastOp.arg \notin DOMAIN activeNotes
    /\ \E id \in DOMAIN voices :
          voices[id].note = lastOp.arg /\ voices[id].stops = 1

\* C6: a noteOff(n) for a note with no active voice changes none of
\* activeNotes, sustainedNotes, sustainActive and detune, does not add n to
\* sustainedNotes and issues no stop, in both pedal states.
C6_NoteOffInactiveNoOp ==
    [][\A n \in Notes :
        (lastOp'.op = "noteOff" /\ lastOp'.arg = n
            /\ n \notin DOMAIN activeNotes) =>
            /\ UNCHANGED <<activeNotes, sustainedNotes, sustainActive, detune>>
            /\ n \notin sustainedNotes'
            /\ voices' = voices
      ]_vars

\* A noteOff for an inactive note has just run with the pedal down, while
\* another note sounds.
C6_Witness ==
    /\ lastOp.op = "noteOff" /\ ~lastOp.hit
    /\ sustainActive
    /\ lastOp.arg \notin DOMAIN activeNotes
    /\ DOMAIN activeNotes # {}

\* C7: sustainOn sets sustainActive and changes neither activeNotes nor
\* sustainedNotes nor any voice; a note whose noteOff was processed with the
\* pedal up just before it is neither active nor sustained afterwards; and
\* sustainedNotes only grows by a noteOff that arrives while sustainActive.
C7_SustainOnOnlySetsFlag ==
    [][/\ lastOp'.op = "sustainOn" =>
            /\ sustainActive'
            /\ UNCHANGED <<activeNotes, sustainedNotes, voices>>
       /\ \A n \in Notes :
            (lastOp.op = "noteOff" /\ lastOp.arg = n /\ ~sustainActive
                /\ lastOp'.op = "sustainOn") =>
                /\ n \notin DOMAIN activeNotes'
                /\ n \notin sustainedNotes'
       /\ ~(sustainedNotes' \subseteq sustainedNotes) =>
            /\ lastOp'.op = "noteOff"
            /\ sustainActive
      ]_vars

\* The pedal has just been pressed after one key was released and while
\* another is held.
C7_Witness ==
    /\ lastOp.op = "sustainOn"
    /\ sustainActive /\ sustainedNotes = {}
    /\ \E i, j \in DOMAIN voices :
          /\ voices[i].stops = 1 /\ voices[i].note \notin DOMAIN activeNotes
          /\ voices[j].stops = 0 /\ voices[j].note \in DOMAIN activeNotes

\* C8: in every reachable state every voice in activeNotes has the
\* oscillator's current detune applied.
C8_LiveDetune ==
    \A n \in DOMAIN activeNotes : voices[activeNotes[n]].detune = detune

\* A detune change has just reached two sounding notes.
C8_Witness ==
    /\ lastOp.op = "detune"
    /\ detune # 0
    /\ Cardinality(DOMAIN activeNotes) = 2
    /\ \A n \in DOMAIN activeNotes : voices[activeNotes[n]].detune = detune

\* C9: for a note message, a noteOn event is produced exactly when the status
\* is 0x90+c and the second data byte is not zero, and it carries channel c,
\* the note byte and velocity v/255; every other note message (0x80+c, or
\* 0x90+c with v = 0) produces noteOff{channel c, note}; the decoder maps
\* [0x90+c, n, 0] and [0x80+c, n, 0] to the same event; and no noteOn event
\* has velocity 0.
C9_NoteMessages ==
    midiData # <<>> =>
        LET b0 == Byte(midiData, 0)
            n  == Byte(midiData, 1)
            v  == Byte(midiData, 2)
        IN  /\ \A c \in 0 .. 15 :
                  /\ b0 = 144 + c =>
                        /\ v # 0 =>
                              midiEvent = customEvent("noteOn",
                                  [channel |-> c, note |-> n,
                                   velocity |-> Ratio(v, 255)])
                        /\ v = 0 =>
                              midiEvent = customEvent("noteOff",
                                  [channel |-> c, note |-> n])
                  /\ b0 = 128 + c =>
                        midiEvent = customEvent("noteOff",
                            [channel |-> c, note |-> n])
                  /\ getEventForData(<<144 + c, n, 0>>)
                        = getEventForData(<<128 + c, n, 0>>)
            /\ midiEvent.type = "noteOn" =>
                  /\ b0 \in 144 .. 159
                  /\ v # 0
                  /\ midiEvent.detail.velocity.num # 0

\* A note-on with velocity 0 on the last channel has been dispatched as a
\* noteOff.
C9_Witness ==
    /\ midiData # <<>>
    /\ Byte(midiData, 0) = 159 /\ Byte(midiData, 2) = 0
    /\ midiEvent.type = "noteOff"
    /\ midiEvent.detail.channel = 15
    /\ dispatched = 1

\* C10: a message whose status byte is below 0x80 or at/above 0xF0 yields no
\* event, whatever its data bytes, and nothing is dispatched for it.
C10_RejectsUnsupportedStatus ==
    [][(Byte(midiData', 0) < 128 \/ Byte(midiData', 0) >= 240) =>
          /\ midiEvent' = NoEvent
          /\ dispatched' = dispatched
      ]_vars

\* A system message with the data bytes of a sustain press has been dropped.
C10_Witness ==
    /\ midiData # <<>>
    /\ Byte(midiData, 0) >= 240
    /\ Byte(midiData, 1) = 64 /\ Byte(midiData, 2) = 127
    /\ midiEvent = NoEvent
    /\ dispatched = 0

\* C11: for a control-change message 0xB0+c, control 0x40 yields
\* sustainOn{channel c} for every nonzero value byte and sustainOff{channel c}
\* for value 0, control 0x01 yields modWheel{value/255}, and every other
\* control number yields no event and no dispatch.
C11_ControlChange ==
    midiData # <<>> =>
        LET b0      == Byte(midiData, 0)
            control == Byte(midiData, 1)
            value   == Byte(midiData, 2)
        IN  \A c \in 0 .. 15 :
              b0 = 176 + c =>
                /\ (control = 64 /\ value # 0) =>
                      midiEvent = customEvent("sustainOn", [channel |-> c])
                /\ (control = 64 /\ value = 0) =>
                      midiEvent = customEvent("sustainOff", [channel |-> c])
                /\ control = 1 =>
                      midiEvent = customEvent("modWheel",
                                      [value |-> Ratio(value, 255)])
                /\ control \notin {1, 64} => midiEvent = NoEvent

\* A sustain control with value 1 on channel 3 has been dispatched as a
\* sustainOn.
C11_Witness ==
    /\ midiData = <<179, 64, 1>>
    /\ midiEvent = customEvent("sustainOn", [channel |-> 3])
    /\ dispatched = 1

\* C15 as claimed: for every status byte that passes the range check, the
\* channel lies in 0..15 and the command is one of NoteOff 0x80, NoteOn 0x90,
\* ControlChange 0xB0, PitchWheel 0xE0.
C15_CommandIsOneOfFour ==
    (midiData # <<>> /\ Byte(midiData, 0) >= 128 /\ Byte(midiData, 0) < 240) =>
        /\ channelOf(midiData) \in 0 .. 15
        /\ commandOf(midiData) \in {128, 144, 176, 224}

\* C15 as amended: for every status byte that passes the range check, the
\* channel lies in 0..15, the command is status - channel and is one of the
\* seven multiples of 16 from 0x80 to 0xE0; an event is produced only for
\* the four commands NoteOff, NoteOn, ControlChange and PitchWheel, and the
\* commands 0xA0, 0xC0 and 0xD0 produce no event.
C15_CommandExtraction ==
    (midiData # <<>> /\ Byte(midiData, 0) >= 128 /\ Byte(midiData, 0) < 240) =>
        /\ channelOf(midiData) \in 0 .. 15
        /\ commandOf(midiData) + channelOf(midiData) = Byte(midiData, 0)
        /\ commandOf(midiData) \in {128, 144, 160, 176, 192, 208, 224}
        /\ midiEvent # NoEvent =>
              commandOf(midiData) \in {128, 144, 176, 224}
        /\ commandOf(midiData) \in {160, 192, 208} =>
              midiEvent = getEventForData(midiData) /\ midiEvent = NoEvent

\* A polyphonic-aftertouch message on channel 5 has passed the range check
\* and been dropped.
C15_Witness ==
    /\ midiData # <<>>
    /\ Byte(midiData, 0) = 165
    /\ channelOf(midiData) = 5 /\ commandOf(midiData) = 160
    /\ midiEvent = NoEvent
    /\ dispatched = 0

\* The voices whose ended event fires in this step.
EndingNow == {id \in DOMAIN voices : ~voices[id].ended /\ voices'[id].ended}

\* C12 as claimed: when the ended event of a voice fires, its nodes are
\* released and afterwards its note is in neither activeNotes nor
\* sustainedNotes.
C12_EndedRemovesNote ==
    [][lastOp'.op = "ended" =>
        \A id \in EndingNow :
            /\ ~voices'[id].connected
            /\ voices[id].note \notin DOMAIN activeNotes'
            /\ voices[id].note \notin sustainedNotes'
      ]_vars

\* C12 as amended: when the ended event of a voice fires, its nodes are
\* disconnected and the callback changes neither activeNotes nor
\* sustainedNotes; the stop before it has already freed the note, so the
\* voice is not the activeNotes entry of its note, and its note is in neither
\* collection unless a later noteOn has started a new voice for it.
C12_EndedReleasesNodes ==
    [][lastOp'.op = "ended" =>
        /\ EndingNow # {}
        /\ UNCHANGED <<activeNotes, sustainedNotes>>
        /\ \A id \in EndingNow :
              /\ voices[id].connected /\ ~voices'[id].connected
              /\ \A n \in DOMAIN activeNotes' : activeNotes'[n] # id
              /\ LiveVoices(voices[id].note) = {} =>
                    /\ voices[id].note \notin DOMAIN activeNotes'
                    /\ voices[id].note \notin sustainedNotes'
      ]_vars

\* The ended event of a stopped voice has just fired and its note is free.
C12_Witness ==
    /\ lastOp.op = "ended"
    /\ \E id \in DOMAIN voices :
          /\ voices[id].ended /\ ~voices[id].connected
          /\ voices[id].note \notin DOMAIN activeNotes
          /\ voices[id].note \notin sustainedNotes

\* C13: the ended event of a voice whose note has a newer voice leaves that
\* voice's activeNotes entry, the voice itself and the note's membership in
\* sustainedNotes as they were.
C13_StaleCallbackSafe ==
    [][lastOp'.op = "ended" =>
        \A id \in EndingNow :
            LET n == voices[id].note
            IN  /\ n \in DOMAIN activeNotes =>
                      /\ activeNotes[n] # id
                      /\ n \in DOMAIN activeNotes'
                      /\ activeNotes'[n] = activeNotes[n]
                      /\ voices'[activeNotes[n]] = voices[activeNotes[n]]
                /\ (n \in sustainedNotes') = (n \in sustainedNotes)
      ]_vars

\* The ended event of the old voice has fired after its note was retriggered
\* and the new voice's release was deferred by the pedal.
C13_Witness ==
    /\ lastOp.op = "ended"
    /\ Len(voices) >= 2
    /\ voices[1].ended /\ voices[2].note = voices[1].note
    /\ voices[1].note \in DOMAIN activeNotes
    /\ activeNotes[voices[1].note] = 2
    /\ voices[2].stops = 0
    /\ voices[1].note \in sustainedNotes

\* C14: a release of the detune fader with stickyPitchBend false sets detune
\* to 0 and applies 0 to the oscillator of every active note; with
\* stickyPitchBend true it leaves detune and every oscillator's detune as
\* they were.
C14_CenterRelease ==
    [][(lastOp'.op = "detuneStop" /\ lastOp'.hit) =>
        /\ ~stickyPitchBend =>
              /\ detune' = 0
              /\ activeNotes' = activeNotes
              /\ \A n \in DOMAIN activeNotes :
                    voices'[activeNotes[n]].detune = 0
        /\ stickyPitchBend =>
              /\ detune' = detune
              /\ voices' = voices
        /\ stickyPitchBend' = stickyPitchBend
      ]_vars

\* The fader has just been released with sticky off: a voice stopped while the
\* bend was on keeps it, the sounding voice is back at 0.
C14_Witness ==
    /\ lastOp.op = "detuneStop" /\ lastOp.hit
    /\ ~stickyPitchBend
    /\ detune = 0
    /\ \E i, j \in DOMAIN voices :
          /\ voices[i].stops = 1 /\ voices[i].detune # 0
          /\ voices[j].stops = 0 /\ voices[j].detune = 0
          /\ voices[j].note \in DOMAIN activeNotes
          /\ activeNotes[voices[j].note] = j

\* A release with sticky on has left a bend on a sounding voice.
C14_WitnessSticky ==
    /\ lastOp.op = "detuneStop" /\ lastOp.hit
    /\ stickyPitchBend
    /\ detune # 0
    /\ \E n \in DOMAIN activeNotes : voices[activeNotes[n]].detune = detune

\* C16: a noteOn whose note is outside [0, 127] creates no voice and leaves
\* activeNotes and sustainedNotes as they were.
C16_RejectsOutOfRangeNote ==
    [][(lastOp'.op = "noteOn" /\ lastOp'.arg \notin 0 .. 127) =>
        /\ voices' = voices
        /\ UNCHANGED <<activeNotes, sustainedNotes>>
      ]_vars

\* C17: in every reachable state the notes with an active voice are exactly
\* the held notes (last note event a noteOn) together with sustainedNotes,
\* and no note is both; so when no key is held and the pedal is up,
\* activeNotes is empty.
C17_NoStuckNotes ==
    /\ DOMAIN activeNotes = heldNotes \cup sustainedNotes
    /\ heldNotes \cap sustainedNotes = {}
    /\ (heldNotes = {} /\ ~sustainActive) => DOMAIN activeNotes = {}

\* One key is held while another, released, is kept by the pedal.
C17_Witness ==
    /\ sustainActive
    /\ heldNotes # {} /\ sustainedNotes # {}
    /\ DOMAIN activeNotes = heldNotes \cup sustainedNotes
    /\ Cardinality(DOMAIN activeNotes) = 2

\* C18: in every reachable state sustainedNotes is a subset of the keys of
\* activeNotes, and it is empty whenever sustainActive is false.
C18_SustainedSubsetOfActive ==
    /\ sustainedNotes \subseteq DOMAIN activeNotes
    /\ ~sustainActive => sustainedNotes = {}

\* Two releases are deferred by the pedal.
C18_Witness ==
    /\ sustainActive
    /\ lastOp.op = "noteOff" /\ lastOp.hit
    /\ Cardinality(sustainedNotes) = 2
    /\ sustainedNotes \subseteq DOMAIN activeNotes

\* Voice id is the activeNotes entry of its note.
IsCurrent(id) ==
    /\ voices[id].note \in DOMAIN activeNotes
    /\ activeNotes[voices[id].note] = id

\* C19: in every reachable state every voice created is either the
\* activeNotes entry of its note and has been issued no stop, or is not in
\* activeNotes and has been issued exactly one stop.
C19_NoOrphanNoDoubleStop ==
    \A id \in DOMAIN voices :
        /\ voices[id].started
        /\ voices[id].stops <= 1
        /\ IsCurrent(id) <=> voices[id].stops = 0

\* Both ways a voice leaves activeNotes have happened to one note: the first
\* voice was stopped by a retrigger, the second by a release.
C19_Witness ==
    /\ Len(voices) >= 2
    /\ voices[1].note = voices[2].note
    /\ voices[1].stops = 1 /\ voices[2].stops = 1
    /\ lastOp.op = "noteOff" /\ lastOp.hit
    /\ voices[1].note \notin DOMAIN activeNotes

\* C20: the nodes of a voice are disconnected only after a stop has been
\* issued to it, and, the engine delivering the ended event of every stopped
\* oscillator, the nodes of every stopped voice are eventually disconnected,
\* whatever happens to its note in the meantime.
C20_ReleasedAfterStop ==
    /\ [](\A id \in DOMAIN voices :
            ~voices[id].connected => (voices[id].stops >= 1 /\ voices[id].ended))
    /\ \A id \in 1 .. MaxVoices :
          (id \in DOMAIN voices /\ voices[id].stops > 0)
              ~> (id \in DOMAIN voices /\ ~voices[id].connected)

\* The nodes of a voice stopped by a retrigger have been released while the
\* new voice of its note sounds.
C20_Witness ==
    /\ Len(voices) >= 2
    /\ voices[1].stops = 1 /\ ~voices[1].connected
    /\ voices[2].note = voices[1].note
    /\ IsCurrent(2) /\ voices[2].connected

=============================================================================
